---- MODULE Spec2Model ----
(***************************************************************************)
(* OTU clustering (agc.py): read_fasta -> dereplication_fulllength ->      *)
(* abundance_greedy_clustering -> write_OTU, as run by main.               *)
(*                                                                         *)
(* Strings are sequences of one-character strings.  A [sequence, count]    *)
(* list of the program is the pair <<sequence, count>>.  The dictionary    *)
(* seq_dict is the sequence of its items in insertion order (the order a   *)
(* Python dict iterates in).  A float identity nb/len*100 is kept as the   *)
(* exact fraction <<100*nb, len>>; comparing it with 97 or 100 by cross    *)
(* multiplication agrees with the float comparison for every length the    *)
(* model uses.                                                             *)
(***************************************************************************)
EXTENDS Integers, Sequences, FiniteSets

VARIABLES
    lines,        \* the decompressed amplicon file, line by line
    minseqlen,    \* args.minseqlen
    mincount,     \* args.mincount
    pc,           \* position of the program
    ln,           \* read_fasta: index of the next line of the file
    sequence,     \* read_fasta: the record being accumulated
    fasta,        \* the strings read_fasta has yielded so far
    seq_dict,     \* dereplication_fulllength: items in insertion order
    dict_sorted,  \* dereplication_fulllength: the sorted items
    k,            \* dereplication_fulllength: position of the generator in dict_sorted
    yielded,      \* the records dereplication_fulllength has yielded so far
    otu_list,     \* abundance_greedy_clustering: the OTU list
    seq,          \* the record being clustered: its sequence
    count,        \* the record being clustered: its count
    is_otu,       \* abundance_greedy_clustering: is_otu
    i,            \* abundance_greedy_clustering: index of otu in the scan of otu_list
    nw,           \* answers of nw.global_align, by <<otu sequence, sequence>>
    alignement,   \* the alignment handed to get_identity
    identity,     \* the value get_identity returned
    output_file,  \* what write_OTU wrote; None while nothing is written
    otu_any       \* OTU list of the engine that scans every OTU, in any order

vars == <<lines, minseqlen, mincount, pc, ln, sequence, fasta, seq_dict,
          dict_sorted, k, yielded, otu_list, seq, count, is_otu, i, nw,
          alignement, identity, output_file, otu_any>>

(* ------------------------------ bounds -------------------------------- *)
MaxLines == 4
MaxReads == 5
MaxMinseqlen == 1
MaxMincount == 2
MaxAlnLen == 2

(* ----------------------------- constants ------------------------------ *)
IdentityThreshold == 97
None == "None"
ZeroDivisionError == "ZeroDivisionError"

(* ------------------------------ strings ------------------------------- *)
Whitespace == {" ", "\n", "\t"}

RECURSIVE LStrip(_)
LStrip(s) ==
    IF s # <<>> /\ Head(s) \in Whitespace THEN LStrip(Tail(s)) ELSE s

RECURSIVE RStrip(_)
RStrip(s) ==
    IF s # <<>> /\ s[Len(s)] \in Whitespace
    THEN RStrip(SubSeq(s, 1, Len(s) - 1))
    ELSE s

\* str.strip()
Strip(s) == RStrip(LStrip(s))

\* str.startswith(">")
StartsWithHeader(line) == line # <<>> /\ line[1] = ">"

(* ----------------------------- read_fasta ----------------------------- *)
\* if len(sequence) >= minseqlen: yield sequence
LongEnough(s) == Len(s) >= minseqlen

(* ---------------------- dereplication_fulllength ---------------------- *)
\* position of sequence s among the items of dict d, 0 when s is not a key
KeyIndex(d, s) ==
    IF \E j \in 1..Len(d) : d[j][1] = s
    THEN CHOOSE j \in 1..Len(d) : d[j][1] = s
    ELSE 0

\* a tally that gives a sequence seen again the count 1
TallyForgets(d, s) ==
    IF KeyIndex(d, s) = 0
    THEN Append(d, <<s, 1>>)
    ELSE [d EXCEPT ![KeyIndex(d, s)] = <<s, 1>>]

\* if sequence not in seq_dict: seq_dict[sequence] = 0 ; seq_dict[sequence] += 1
Tally(d, s) ==
    IF KeyIndex(d, s) = 0
    THEN Append(d, <<s, 0 + 1>>)
    ELSE [d EXCEPT ![KeyIndex(d, s)] = <<s, d[KeyIndex(d, s)][2] + 1>>]

\* insert item x into the list acc, sorted by count descending, after every
\* item whose count is at least x's (stability)
InsertDesc(acc, x) ==
    LET after == {j \in 1..Len(acc) : acc[j][2] >= x[2]}
        p == Cardinality(after)
    IN SubSeq(acc, 1, p) \o <<x>> \o SubSeq(acc, p + 1, Len(acc))

RECURSIVE SortedInto(_, _)
SortedInto(acc, d) ==
    IF d = <<>> THEN acc ELSE SortedInto(InsertDesc(acc, Head(d)), Tail(d))

\* insert item x before every item whose count is at most x's
InsertDescFirst(acc, x) ==
    LET p == Cardinality({j \in 1..Len(acc) : acc[j][2] > x[2]})
    IN SubSeq(acc, 1, p) \o <<x>> \o SubSeq(acc, p + 1, Len(acc))

RECURSIVE SortedIntoFirst(_, _)
SortedIntoFirst(acc, d) ==
    IF d = <<>> THEN acc
    ELSE SortedIntoFirst(InsertDescFirst(acc, Head(d)), Tail(d))

\* a sort by count descending that reverses the order of equal counts
SortedTiesReversed(d) == SortedIntoFirst(<<>>, d)

\* a sort by count ascending (reverse=True left out)
SortedAscending(d) ==
    LET r == SortedIntoFirst(<<>>, d)
    IN [j \in 1..Len(r) |-> r[Len(r) + 1 - j]]

\* sorted(seq_dict.items(), key=lambda x: x[1], reverse=True): stable, so
\* items of equal count keep the order of the dictionary
SortedByCount(d) == SortedInto(<<>>, d)

\* if count >= mincount: yield [seq, count]
Qualifies(item) == item[2] >= mincount

\* a generator that yields every item, whatever its count
NextYieldUnfiltered(p) == IF p < Len(dict_sorted) THEN p + 1 ELSE 0

\* the generator's next yield after position p of dict_sorted; 0 when it is
\* exhausted
NextYield(p) ==
    IF \E j \in (p + 1)..Len(dict_sorted) : Qualifies(dict_sorted[j])
    THEN CHOOSE j \in (p + 1)..Len(dict_sorted) :
            /\ Qualifies(dict_sorted[j])
            /\ \A h \in (p + 1)..(j - 1) : ~Qualifies(dict_sorted[h])
    ELSE 0

(* ---------------------------- get_identity ---------------------------- *)
Min(a, b) == IF a <= b THEN a ELSE b

\* sum(1 for a, b in zip(alignment_list[0], alignment_list[1]) if a == b)
NbIdentity(al) ==
    Cardinality({j \in 1..Min(Len(al[1]), Len(al[2])) : al[1][j] = al[2][j]})

\* the length of the first string without its gaps
IdentityLengthUngapped(al) ==
    Cardinality({j \in 1..Len(al[1]) : al[1][j] # "-"})

\* len(alignment_list[0])
IdentityLength(al) == Len(al[1])

\* float(nb_identity/len(alignment_list[0])*100), or the division's error
GetIdentity(al) ==
    IF IdentityLength(al) = 0
    THEN ZeroDivisionError
    ELSE <<100 * NbIdentity(al), IdentityLength(al)>>

\* identity >= 97
AtLeastThreshold(id) == id[1] >= IdentityThreshold * id[2]

\* identity > 97
AboveThreshold(id) == id[1] > IdentityThreshold * id[2]

(* -------------------- abundance_greedy_clustering --------------------- *)
\* the counts compared the other way round
IsVariantReversed(otu, cnt, id) == otu[2] < cnt /\ AboveThreshold(id)

\* if(otu[1] > count and identity > 97)
IsVariant(otu, cnt, id) == otu[2] > cnt /\ AboveThreshold(id)

\* a loop that leaves after its first otu
LastOTUFirst(idx, otus) == idx >= 1

\* for otu in otu_list: otu at position idx is the last one of the loop
LastOTU(idx, otus) == idx >= Len(otus)

\* otu_list.insert(0, [sequence, count])
PrependOTU(otus, rec) == <<rec>> \o otus

\* otu_list.append([sequence, count])
AppendOTU(otus, rec) == Append(otus, rec)

\* the aligner is the external library nwalign3: for the pair it is given it
\* returns some pair of equal-length gapped strings, the same one every time.
\* Aligned(n, m): n columns; the first m hold equal characters, the next a
\* mismatch, the others a gap
Aligned(n, m) ==
    << [j \in 1..n |-> "A"],
       [j \in 1..n |-> IF j <= m THEN "A" ELSE IF j = m + 1 THEN "C" ELSE "-"] >>

AlignmentResults ==
    { Aligned(100, 97), Aligned(100, 98) }

\* the sequences of the records of a list
Sequences(otus) == {otus[j][1] : j \in 1..Len(otus)}

(* ------------------------------ write_OTU ----------------------------- *)
\* f">OTU_{num+1} occurrence:{otu[1]}" and textwrap.fill(otu[0], width=80),
\* which leaves a string of fewer than 80 characters without blanks as it is
WriteOTU(otus) ==
    [num \in 1..Len(otus) |-> << <<">OTU_", num, " occurrence:", otus[num][2]>>,
                                 otus[num][1] >>]

(* ------------------------------- inputs ------------------------------- *)
HeaderLine == <<">", "\n">>
Lines == {HeaderLine, <<"A", "\n">>, <<"C", "\n">>, <<"\n">>}

\* any file of at most MaxLines lines
FreeFiles == UNION {[1..n -> Lines] : n \in 0..MaxLines}

\* a well-formed file: each read is a header line and one line of sequence
Reads == {<<"A">>, <<"C">>, <<"A", "C">>}

RECURSIVE FastaOf(_)
FastaOf(rs) ==
    IF rs = <<>> THEN <<>>
    ELSE <<HeaderLine, Head(rs) \o <<"\n">> >> \o FastaOf(Tail(rs))

ReadFiles == {FastaOf(rs) : rs \in UNION {[1..n -> Reads] : n \in 0..MaxReads}}

AlnChars == {"A", "C", "-"}
AlnStrings == UNION {[1..n -> AlnChars] : n \in 0..MaxAlnLen}

(* ------------------------------- states ------------------------------- *)
Idle ==
    /\ ln = 1
    /\ sequence = <<>>
    /\ fasta = <<>>
    /\ seq_dict = <<>>
    /\ dict_sorted = <<>>
    /\ k = 0
    /\ yielded = <<>>
    /\ otu_list = <<>>
    /\ seq = None
    /\ count = 0
    /\ is_otu = TRUE
    /\ i = 0
    /\ nw = <<>>
    /\ identity = None
    /\ output_file = None
    /\ otu_any = <<>>

\* main(): the arguments are parsed, nothing has been read
Init ==
    /\ lines \in FreeFiles \cup ReadFiles
    /\ minseqlen \in 0..MaxMinseqlen
    /\ mincount \in 0..MaxMincount
    /\ pc = "read_fasta"
    /\ alignement = None
    /\ Idle

(* ----------------------------- read_fasta ----------------------------- *)
\* the strings read_fasta yields are consumed at once by the tally loop of
\* dereplication_fulllength
Yield(s) ==
    IF LongEnough(s)
    THEN fasta' = Append(fasta, s) /\ seq_dict' = Tally(seq_dict, s)
    ELSE UNCHANGED <<fasta, seq_dict>>

ReadHeader ==
    /\ pc = "read_fasta"
    /\ ln <= Len(lines)
    /\ StartsWithHeader(lines[ln])
    /\ Yield(sequence)
    /\ sequence' = <<>>
    /\ ln' = ln + 1
    /\ UNCHANGED <<lines, minseqlen, mincount, pc, dict_sorted, k, yielded,
                   otu_list, seq, count, is_otu, i, nw, alignement, identity,
                   output_file, otu_any>>

ReadSequenceLine ==
    /\ pc = "read_fasta"
    /\ ln <= Len(lines)
    /\ ~StartsWithHeader(lines[ln])
    /\ sequence' = sequence \o Strip(lines[ln])
    /\ ln' = ln + 1
    /\ UNCHANGED <<lines, minseqlen, mincount, pc, fasta, seq_dict, dict_sorted,
                   k, yielded, otu_list, seq, count, is_otu, i, nw, alignement,
                   identity, output_file, otu_any>>

ReadEnd ==
    /\ pc = "read_fasta"
    /\ ln > Len(lines)
    /\ Yield(sequence)
    /\ pc' = "sorted"
    /\ UNCHANGED <<lines, minseqlen, mincount, ln, sequence, dict_sorted, k,
                   yielded, otu_list, seq, count, is_otu, i, nw, alignement,
                   identity, output_file, otu_any>>

(* ---------------------- dereplication_fulllength ---------------------- *)
Sorted ==
    /\ pc = "sorted"
    /\ dict_sorted' = SortedByCount(seq_dict)
    /\ pc' = "seed"
    /\ UNCHANGED <<lines, minseqlen, mincount, ln, sequence, fasta, seq_dict, k,
                   yielded, otu_list, seq, count, is_otu, i, nw, alignement,
                   identity, output_file, otu_any>>

(* -------------------- abundance_greedy_clustering --------------------- *)
\* otu_list.append(next(dereplication))
Seed ==
    /\ pc = "seed"
    /\ NextYield(0) # 0
    /\ k' = NextYield(0)
    /\ yielded' = Append(yielded, dict_sorted[NextYield(0)])
    /\ otu_list' = AppendOTU(otu_list, dict_sorted[NextYield(0)])
    /\ otu_any' = Append(otu_any, dict_sorted[NextYield(0)])
    /\ pc' = "for"
    /\ UNCHANGED <<lines, minseqlen, mincount, ln, sequence, fasta, seq_dict,
                   dict_sorted, seq, count, is_otu, i, nw, alignement, identity,
                   output_file>>

\* next(dereplication) on an exhausted generator: StopIteration leaves
\* abundance_greedy_clustering and main
SeedStopIteration ==
    /\ pc = "seed"
    /\ NextYield(0) = 0
    /\ pc' = "StopIteration"
    /\ UNCHANGED <<lines, minseqlen, mincount, ln, sequence, fasta, seq_dict,
                   dict_sorted, k, yielded, otu_list, seq, count, is_otu, i, nw,
                   alignement, identity, output_file, otu_any>>

\* the pairs the aligner is asked about for the record with sequence s
NewPairs(s) == {<<o, s>> : o \in Sequences(otu_list) \cup Sequences(otu_any)}

\* for sequence, count in dereplication: is_otu = True
ForNext ==
    /\ pc = "for"
    /\ NextYield(k) # 0
    /\ k' = NextYield(k)
    /\ yielded' = Append(yielded, dict_sorted[NextYield(k)])
    /\ seq' = dict_sorted[NextYield(k)][1]
    /\ count' = dict_sorted[NextYield(k)][2]
    /\ is_otu' = TRUE
    /\ i' = 1
    /\ \E f \in [NewPairs(seq') -> AlignmentResults] :
          nw' = [p \in DOMAIN nw \cup NewPairs(seq') |->
                    IF p \in NewPairs(seq') THEN f[p] ELSE nw[p]]
    /\ pc' = "scan"
    /\ UNCHANGED <<lines, minseqlen, mincount, ln, sequence, fasta, seq_dict,
                   dict_sorted, otu_list, alignement, identity, output_file,
                   otu_any>>

\* the loop over dereplication ends: return otu_list
ForEnd ==
    /\ pc = "for"
    /\ NextYield(k) = 0
    /\ pc' = "return"
    /\ UNCHANGED <<lines, minseqlen, mincount, ln, sequence, fasta, seq_dict,
                   dict_sorted, k, yielded, otu_list, seq, count, is_otu, i, nw,
                   alignement, identity, output_file, otu_any>>

\* for otu in otu_list: align, get_identity; the test holds: break
ScanMatch ==
    /\ pc = "scan"
    /\ alignement' = nw[<<otu_list[i][1], seq>>]
    /\ identity' = GetIdentity(alignement')
    /\ IsVariant(otu_list[i], count, identity')
    /\ is_otu' = FALSE
    /\ pc' = "is_otu"
    /\ UNCHANGED <<lines, minseqlen, mincount, ln, sequence, fasta, seq_dict,
                   dict_sorted, k, yielded, otu_list, seq, count, i, nw,
                   output_file, otu_any>>

\* for otu in otu_list: align, get_identity; the test fails: next otu
ScanNoMatch ==
    /\ pc = "scan"
    /\ alignement' = nw[<<otu_list[i][1], seq>>]
    /\ identity' = GetIdentity(alignement')
    /\ ~IsVariant(otu_list[i], count, identity')
    /\ IF LastOTU(i, otu_list)
       THEN i' = i /\ pc' = "is_otu"
       ELSE i' = i + 1 /\ pc' = pc
    /\ UNCHANGED <<lines, minseqlen, mincount, ln, sequence, fasta, seq_dict,
                   dict_sorted, k, yielded, otu_list, seq, count, is_otu, nw,
                   output_file, otu_any>>

\* the engine that looks at every OTU of its list, in any order, and absorbs
\* the record when any of them has a greater count and an identity above 97
AnyAbsorbs(otus, s, cnt) ==
    \E j \in 1..Len(otus) :
        /\ otus[j][2] > cnt
        /\ LET id == GetIdentity(nw[<<otus[j][1], s>>])
           IN id[1] > 97 * id[2]

ScanAll(otus, s, cnt) ==
    IF AnyAbsorbs(otus, s, cnt) THEN otus ELSE Append(otus, <<s, cnt>>)

\* if is_otu: otu_list.append([sequence, count])
NewOTU ==
    /\ pc = "is_otu"
    /\ is_otu
    /\ otu_list' = AppendOTU(otu_list, <<seq, count>>)
    /\ otu_any' = ScanAll(otu_any, seq, count)
    /\ pc' = "for"
    /\ UNCHANGED <<lines, minseqlen, mincount, ln, sequence, fasta, seq_dict,
                   dict_sorted, k, yielded, seq, count, is_otu, i, nw,
                   alignement, identity, output_file>>

\* is_otu is False: the record is a variant, the list stays as it is
Variant ==
    /\ pc = "is_otu"
    /\ ~is_otu
    /\ otu_any' = ScanAll(otu_any, seq, count)
    /\ pc' = "for"
    /\ UNCHANGED <<lines, minseqlen, mincount, ln, sequence, fasta, seq_dict,
                   dict_sorted, k, yielded, otu_list, seq, count, is_otu, i, nw,
                   alignement, identity, output_file>>

(* -------------------------------- main -------------------------------- *)
\* write_OTU(otu_list, args.output_file)
Write ==
    /\ pc = "return"
    /\ output_file' = WriteOTU(otu_list)
    /\ pc' = "done"
    /\ UNCHANGED <<lines, minseqlen, mincount, ln, sequence, fasta, seq_dict,
                   dict_sorted, k, yielded, otu_list, seq, count, is_otu, i, nw,
                   alignement, identity, otu_any>>

Next ==
    \/ ReadHeader
    \/ ReadSequenceLine
    \/ ReadEnd
    \/ Sorted
    \/ Seed
    \/ SeedStopIteration
    \/ ForNext
    \/ ForEnd
    \/ ScanMatch
    \/ ScanNoMatch
    \/ NewOTU
    \/ Variant
    \/ Write

Spec == Init /\ [][Next]_vars

(* --------------------- get_identity, called alone --------------------- *)
InitIdentity ==
    /\ lines = <<>>
    /\ minseqlen = 0
    /\ mincount = 0
    /\ pc = "get_identity"
    /\ alignement \in AlnStrings \X AlnStrings
    /\ Idle

IdentityReturns ==
    /\ pc = "get_identity"
    /\ IdentityLength(alignement) # 0
    /\ identity' = GetIdentity(alignement)
    /\ pc' = "identity"
    /\ UNCHANGED <<lines, minseqlen, mincount, ln, sequence, fasta, seq_dict,
                   dict_sorted, k, yielded, otu_list, seq, count, is_otu, i, nw,
                   alignement, output_file, otu_any>>

IdentityRaises ==
    /\ pc = "get_identity"
    /\ IdentityLength(alignement) = 0
    /\ identity' = GetIdentity(alignement)
    /\ pc' = "raised"
    /\ UNCHANGED <<lines, minseqlen, mincount, ln, sequence, fasta, seq_dict,
                   dict_sorted, k, yielded, otu_list, seq, count, is_otu, i, nw,
                   alignement, output_file, otu_any>>

NextIdentity == IdentityReturns \/ IdentityRaises

SpecIdentity == InitIdentity /\ [][NextIdentity]_vars

(* =============================== claims =============================== *)
Range(f) == {f[j] : j \in 1..Len(f)}

\* number of times read_fasta yielded s, and the position of its first yield
Occ(s) == Cardinality({j \in 1..Len(fasta) : fasta[j] = s})
FirstOcc(s) == CHOOSE j \in 1..Len(fasta) :
                  fasta[j] = s /\ \A h \in 1..(j - 1) : fasta[h] # s

\* the generator of dereplication_fulllength is exhausted
DerepDone == pc \in {"StopIteration", "return", "done"}

\* identity strictly greater than 97, on the fraction <<numerator, denominator>>
Over97(id) == id[1] > 97 * id[2]

\* identity of the alignment of OTU sequence o with sequence s
IdentityOf(o, s) == GetIdentity(nw[<<o, s>>])

(* C2: dereplication_fulllength emits exactly one record per distinct      *)
(* sequence that read_fasta yielded at least mincount times, with that     *)
(* number of yields as its count; no sequence yielded fewer times is       *)
(* emitted and no sequence is emitted twice.                               *)
C2_Dereplication ==
    /\ \A j \in 1..Len(yielded) :
          /\ yielded[j][1] \in Range(fasta)
          /\ yielded[j][2] = Occ(yielded[j][1])
          /\ yielded[j][2] >= mincount
    /\ \A j, h \in 1..Len(yielded) : j # h => yielded[j][1] # yielded[h][1]
    /\ DerepDone =>
          \A s \in Range(fasta) :
             Occ(s) >= mincount => \E j \in 1..Len(yielded) : yielded[j][1] = s

C2_Witness ==
    /\ DerepDone
    /\ \E s \in Range(fasta) : Occ(s) < mincount
    /\ \E j \in 1..Len(yielded) : yielded[j][2] >= 2
    /\ Len(yielded) >= 2

(* C3: the records emitted by dereplication_fulllength are in non-         *)
(* increasing order of count, and two records of equal count are in the    *)
(* order in which their sequences first occurred in the input.             *)
C3_Ranking ==
    \A j, h \in 1..Len(yielded) :
       j < h =>
          /\ yielded[j][2] >= yielded[h][2]
          /\ yielded[j][2] = yielded[h][2] =>
                FirstOcc(yielded[j][1]) < FirstOcc(yielded[h][1])

C3_Witness ==
    /\ DerepDone
    /\ \E j, h \in 1..Len(yielded) :
          /\ j < h
          /\ yielded[j][2] = yielded[h][2]
    /\ \E j, h \in 1..Len(yielded) :
          /\ yielded[j][2] > yielded[h][2]
          /\ FirstOcc(yielded[j][1]) > FirstOcc(yielded[h][1])

(* C4: when no sequence survives the length and count filters,             *)
(* abundance_greedy_clustering ends with StopIteration, it returns no      *)
(* list, and main never calls write_OTU: nothing is written.               *)
NoneSurvives == \A j \in 1..Len(seq_dict) : seq_dict[j][2] < mincount

C4_Exhaustion ==
    (pc \notin {"read_fasta", "sorted", "seed"} /\ NoneSurvives) =>
       /\ pc = "StopIteration"
       /\ otu_list = <<>>
       /\ output_file = None

C4_Witness ==
    /\ pc = "StopIteration"
    /\ NoneSurvives
    /\ fasta # <<>>
    /\ output_file = None

(* C1: a record after the first is left out of the OTU list exactly when, *)
(* at the moment it is processed, the list holds an OTU whose count is     *)
(* strictly greater and whose alignment with it has an identity strictly   *)
(* greater than 97; in every other case it is appended as a new OTU.       *)
Absorbed ==
    \E j \in 1..Len(otu_list) :
        /\ otu_list[j][2] > count
        /\ Over97(IdentityOf(otu_list[j][1], seq))

C1_Absorption ==
    [][pc = "is_otu" =>
          IF Absorbed
          THEN otu_list' = otu_list
          ELSE otu_list' = Append(otu_list, <<seq, count>>)]_vars

\* the second record was absorbed; the third, of a smaller count than an OTU
\* it is at exactly 97 from, was appended
C1_Witness ==
    /\ pc = "for"
    /\ Len(yielded) = 3
    /\ Len(otu_list) = 2
    /\ otu_list[2] = yielded[3]
    /\ otu_list[1][2] > otu_list[2][2]
    /\ LET id == IdentityOf(otu_list[1][1], otu_list[2][1])
       IN id[1] = 97 * id[2]

(* C5: at every point of the clustering loop and in the result, for every  *)
(* pair of OTUs at positions a < b it is not the case that OTU a has a     *)
(* strictly greater count than OTU b and that the identity of their        *)
(* alignment is strictly greater than 97.                                  *)
C5_NoMatchingPair ==
    \A a, b \in 1..Len(otu_list) :
       a < b =>
          ~ /\ otu_list[a][2] > otu_list[b][2]
            /\ Over97(IdentityOf(otu_list[a][1], otu_list[b][1]))

C5_Witness ==
    /\ pc = "done"
    /\ Len(otu_list) < Len(yielded)
    /\ \E a, b \in 1..Len(otu_list) :
          /\ a < b
          /\ otu_list[a][2] > otu_list[b][2]

(* C7: every step leaves the OTU list as it is or appends one record at    *)
(* its end; no element is removed, moved or changed, and the list never    *)
(* holds more records than dereplication_fulllength emitted.               *)
C7_AppendOnly ==
    [][/\ \/ otu_list' = otu_list
          \/ /\ Len(otu_list') = Len(otu_list) + 1
             /\ SubSeq(otu_list', 1, Len(otu_list)) = otu_list
       /\ Len(otu_list') <= Len(yielded')
       /\ pc' = "done" =>
             Len(otu_list') <=
                Cardinality({j \in 1..Len(dict_sorted) : dict_sorted[j][2] >= mincount})
      ]_vars

C7_Witness ==
    /\ pc = "done"
    /\ Len(otu_list) >= 2
    /\ Len(otu_list) < Len(yielded)

(* C8: the first element of the OTU list is the first record emitted by    *)
(* dereplication_fulllength, the most abundant sequence and the first      *)
(* occurring among those of that count, in every state of the loop and in  *)
(* the result.                                                             *)
C8_Seed ==
    otu_list # <<>> =>
       /\ otu_list[1] = yielded[1]
       /\ otu_list[1][2] = Occ(otu_list[1][1])
       /\ \A s \in Range(fasta) :
             \/ Occ(s) < otu_list[1][2]
             \/ /\ Occ(s) = otu_list[1][2]
                /\ FirstOcc(otu_list[1][1]) <= FirstOcc(s)

C8_Witness ==
    /\ pc = "done"
    /\ Len(otu_list) >= 2
    /\ \E s \in Range(fasta) :
          /\ Occ(s) < otu_list[1][2]
          /\ FirstOcc(s) < FirstOcc(otu_list[1][1])

(* C9: read_fasta emits, in file order, one string per record whose        *)
(* content has length >= minseqlen and nothing else; a header without      *)
(* content, and the position before the first header, give no zero-length  *)
(* sequence.  (Content before the first header is taken as a record when   *)
(* it is not empty.)                                                       *)
RECURSIVE Chunks(_, _)
Chunks(ls, cur) ==
    IF ls = <<>> THEN <<cur>>
    ELSE IF StartsWithHeader(Head(ls))
         THEN <<cur>> \o Chunks(Tail(ls), <<>>)
         ELSE Chunks(Tail(ls), cur \o Strip(Head(ls)))

RecordKept(c) == c # <<>> /\ Len(c) >= minseqlen

C9_NoEmptySequence ==
    pc # "read_fasta" =>
       /\ fasta = SelectSeq(Chunks(lines, <<>>), RecordKept)
       /\ \A j \in 1..Len(seq_dict) : seq_dict[j][1] # <<>>

(* C10: the engine that looks at every OTU of its list, in any order, and  *)
(* absorbs a record when any of them has a strictly greater count and an   *)
(* identity above 97 builds the same OTU list as the engine of the         *)
(* program: same records, same order, same counts.                         *)
C10_ScanOrder == otu_any = otu_list

\* a record was absorbed by the second OTU, after the first did not absorb it
C10_Witness ==
    /\ pc = "is_otu"
    /\ ~is_otu
    /\ i >= 2
    /\ seq # <<>>
    /\ otu_any = otu_list

(* C6: for a pair of equal-length aligned strings that is not empty,       *)
(* get_identity returns 100 times the number of columns holding equal      *)
(* characters over the length of the first string, gaps counted in the     *)
(* length; the value is within [0, 100] and is 100 when the two strings    *)
(* are the same.                                                           *)
RECURSIVE EqualColumns(_, _)
EqualColumns(a, b) ==
    IF a = <<>> \/ b = <<>> THEN 0
    ELSE (IF Head(a) = Head(b) THEN 1 ELSE 0) + EqualColumns(Tail(a), Tail(b))

IdentityAsClaimed ==
    /\ pc = "identity"
    /\ identity # ZeroDivisionError
    /\ identity[1] = 100 * EqualColumns(alignement[1], alignement[2])
    /\ identity[2] = Len(alignement[1])
    /\ 0 <= identity[1]
    /\ identity[1] <= 100 * identity[2]
    /\ alignement[1] = alignement[2] => identity[1] = 100 * identity[2]

C6_Identity ==
    (/\ pc # "get_identity"
     /\ Len(alignement[1]) = Len(alignement[2])
     /\ alignement[1] # <<>>) => IdentityAsClaimed

C6_Witness ==
    /\ pc = "identity"
    /\ Len(alignement[1]) = Len(alignement[2])
    /\ \E j \in 1..Len(alignement[1]) : alignement[1][j] = "-"
    /\ 0 < identity[1]
    /\ identity[1] < 100 * identity[2]

\* C6 as first stated: for every pair of equal-length aligned strings
C6_EveryAlignment ==
    (/\ pc # "get_identity"
     /\ Len(alignement[1]) = Len(alignement[2])) => IdentityAsClaimed

====
